---- MODULE Spec2Model ----
(***************************************************************************)
(* A model of the two command-line pipelines of findmybaddie:              *)
(*   - instagram_follower_analysis.py: extract profiles, filter human      *)
(*     names, classify the whole batch through one external request and    *)
(*     merge the answer by id, display and save;                           *)
(*   - celebrity_analysis.py: per celebrity, retrieve a Wikipedia page     *)
(*     (search, then fetch) and guess sex and race from its text.          *)
(* Python strings are TLA+ strings over the characters U+0001..U+00FF;     *)
(* positions in them are 1-based here.                                     *)
(* A missing dictionary key is the marker Absent.                          *)
(***************************************************************************)
EXTENDS Integers, Sequences, FiniteSets, TLC

VARIABLES pc, args, api_key, followers, batch, response, requests, log, shown, saved,
          wpc, celebs, widx, phase, calls, sex_content, race_content, info, printed,
          text, sex, race, tpc,
          name, human, fpc

bulkVars == <<pc, args, api_key, followers, batch, response, requests, log, shown, saved>>
wikiVars == <<wpc, celebs, widx, phase, calls, sex_content, race_content, info, printed>>
textVars == <<text, sex, race, tpc>>
filterVars == <<name, human, fpc>>
vars == <<bulkVars, wikiVars, textVars, filterVars>>

Absent == "<absent>"

(***************************************************************************)
(* Strings.                                                                *)
(***************************************************************************)
UpperLetters == "ABCDEFGHIJKLMNOPQRSTUVWXYZ"
LowerLetters == "abcdefghijklmnopqrstuvwxyz"
Digits == "0123456789"

\* the cased letters of U+0080..U+00FF: an upper-case letter and, at the same
\* position, its lower-case form
Latin1Upper == "ÀÁÂÃÄÅÆÇÈÉÊËÌÍÎÏÐÑÒÓÔÕÖØÙÚÛÜÝÞ"
Latin1Lower == "àáâãäåæçèéêëìíîïðñòóôõöøùúûüýþ"
\* the lower-case letters of that range without an upper-case form in it
Latin1LowerOnly == "ªµºßÿ"
\* its characters that are alphanumeric without being letters
Latin1Numeric == "²³¹¼½¾"

\* the characters str.isspace accepts up to U+00FF: space, tab, line feed, carriage
\* return, form feed, U+000B, U+001C..U+001F, U+0085 and U+00A0
Whitespace == " \t\n\r\f "

\* the characters U+0080..U+00FF and, at the same position, what
\* unicodedata.normalize('NFKD', c).encode('ASCII', 'ignore') leaves of each
Latin1 == " ¡¢£¤¥¦§¨©ª«¬­®¯°±²³´µ¶·¸¹º»¼½¾¿ÀÁÂÃÄÅÆÇÈÉÊËÌÍÎÏÐÑÒÓÔÕÖ×ØÙÚÛÜÝÞßàáâãäåæçèéêëìíîïðñòóôõö÷øùúûüýþÿ"
AsciiOfLatin1 ==
    << "", "", "", "", "", "", "", "", "", "", "", "", "", "", "", "",
       "", "", "", "", "", "", "", "", "", "", "", "", "", "", "", "",
       " ", "", "", "", "", "", "", "", " ", "", "a", "", "", "", "", " ",
       "", "", "2", "3", " ", "", "", "", " ", "1", "o", "", "14", "12", "34", "",
       "A", "A", "A", "A", "A", "A", "", "C", "E", "E", "E", "E", "I", "I", "I", "I",
       "", "N", "O", "O", "O", "O", "O", "", "", "U", "U", "U", "U", "Y", "", "",
       "a", "a", "a", "a", "a", "a", "", "c", "e", "e", "e", "e", "i", "i", "i", "i",
       "", "n", "o", "o", "o", "o", "o", "", "", "u", "u", "u", "u", "y", "", "y" >>

Char(s, i) == SubSeq(s, i, i)

Chars(s) == {Char(s, i) : i \in 1..Len(s)}

IndexIn(s, c) == CHOOSE i \in 1..Len(s) : Char(s, i) = c

AsciiUpperSet == Chars(UpperLetters)
Latin1UpperSet == Chars(Latin1Upper)
UpperSet == AsciiUpperSet \cup Latin1UpperSet
LowerSet == Chars(LowerLetters) \cup Chars(Latin1Lower) \cup Chars(Latin1LowerOnly)
SpaceSet == Chars(Whitespace)
WordSet == UpperSet \cup LowerSet \cup Chars(Digits) \cup Chars(Latin1Numeric) \cup {"_"}
Latin1Set == Chars(Latin1)

\* str.isalpha / str.isspace / str.isupper / str.islower on one character
isalpha(c) == c \in UpperSet \/ c \in LowerSet
isspace(c) == c \in SpaceSet
isupperChar(c) == c \in UpperSet
islowerChar(c) == c \in LowerSet

\* the \w class of re: the alphanumeric characters and the underscore
isWordChar(c) == c \in WordSet

\* str.lower on one character
lowerChar(c) ==
    IF c \in AsciiUpperSet THEN Char(LowerLetters, IndexIn(UpperLetters, c))
    ELSE IF c \in Latin1UpperSet THEN Char(Latin1Lower, IndexIn(Latin1Upper, c))
    ELSE c

RECURSIVE lower(_)
lower(s) == IF s = "" THEN "" ELSE lowerChar(Char(s, 1)) \o lower(SubSeq(s, 2, Len(s)))

\* str.isupper: at least one cased character and no lower-case one
isupper(s) ==
    /\ \E i \in 1..Len(s) : isupperChar(Char(s, i))
    /\ \A i \in 1..Len(s) : ~islowerChar(Char(s, i))

RECURSIVE Concat(_)
Concat(parts) == IF parts = <<>> THEN "" ELSE Head(parts) \o Concat(Tail(parts))

SeqsUpTo(S, n) == UNION {[1..k -> S] : k \in 0..n}

\* the literal lit occurs in s starting at position i
LiteralAt(s, i, lit) ==
    /\ i >= 1
    /\ i + Len(lit) - 1 <= Len(s)
    /\ SubSeq(s, i, i + Len(lit) - 1) = lit

\* "lit in s" of Python
Contains(s, lit) == \E i \in 1..(Len(s) - Len(lit) + 1) : LiteralAt(s, i, lit)

\* the \b of re between positions i and i+1 (0 is the start, Len(s) the end)
WordAt(s, i) == i >= 1 /\ i <= Len(s) /\ isWordChar(Char(s, i))
Boundary(s, i) == WordAt(s, i) # WordAt(s, i + 1)

\* the pattern \b lit \b matches in s at position i
WordMatchAt(s, i, lit) ==
    /\ LiteralAt(s, i, lit)
    /\ Boundary(s, i - 1)
    /\ Boundary(s, i + Len(lit) - 1)

\* re.search(r'\b' + re.escape(term) + r'\b', s) is not None
re_search_word(term, s) == \E i \in 1..(Len(s) - Len(term) + 1) : WordMatchAt(s, i, term)

(***************************************************************************)
(* instagram_follower_analysis.py: normalize_name, is_human_name           *)
(***************************************************************************)
\* line 45: keep the alphabetic and space characters
RECURSIVE keep_alpha_space(_)
keep_alpha_space(s) ==
    IF s = "" THEN ""
    ELSE (IF isalpha(Char(s, 1)) \/ isspace(Char(s, 1)) THEN Char(s, 1) ELSE "")
         \o keep_alpha_space(SubSeq(s, 2, Len(s)))

\* str.strip
RECURSIVE lstrip(_)
lstrip(s) == IF s # "" /\ isspace(Char(s, 1)) THEN lstrip(SubSeq(s, 2, Len(s))) ELSE s
RECURSIVE rstrip(_)
rstrip(s) ==
    IF s # "" /\ isspace(Char(s, Len(s))) THEN rstrip(SubSeq(s, 1, Len(s) - 1)) ELSE s
strip(s) == rstrip(lstrip(s))

\* line 47: decompose (NFKD) and keep the ASCII characters
RECURSIVE nfkd_ascii(_)
nfkd_ascii(s) ==
    IF s = "" THEN ""
    ELSE (IF Char(s, 1) \in Latin1Set THEN AsciiOfLatin1[IndexIn(Latin1, Char(s, 1))]
          ELSE Char(s, 1))
         \o nfkd_ascii(SubSeq(s, 2, Len(s)))

\* lines 45-48
normalize_name(n) == strip(nfkd_ascii(keep_alpha_space(n)))

\* str.split(): the maximal runs of non-space characters, as a set
RECURSIVE split_from(_, _, _)
split_from(s, i, cur) ==
    IF i > Len(s) THEN (IF cur = "" THEN {} ELSE {cur})
    ELSE IF isspace(Char(s, i))
         THEN (IF cur = "" THEN {} ELSE {cur}) \cup split_from(s, i + 1, "")
         ELSE split_from(s, i + 1, cur \o Char(s, i))
split(s) == split_from(s, 1, "")

non_human_keywords ==
    << "ucla", "store", "club", "official", "university", "association", "group",
       "organization", "school", "community", "foundation", "society", "team",
       "committee", "company", "inc", "corp", "llc", "association", "the",
       "enabler", "athletics", "admission", "engineering", "barstool", "school",
       "den", "backpacking", "sjp", "shop", "tuned", "metronome", "samueli",
       "undergraduate", "what's bruin", "berkeley", "official" >>

UpperMinLen == 3

is_human_name(n) ==
    LET norm_name == lower(normalize_name(n))
    IN  IF \E k \in 1..Len(non_human_keywords) : non_human_keywords[k] \in split(norm_name)
        THEN FALSE
        ELSE IF isupper(n) /\ Len(n) > UpperMinLen
             THEN FALSE
             ELSE TRUE

(***************************************************************************)
(* celebrity_analysis.py: the heuristics of _get_sex and _get_race on the  *)
(* retrieved content                                                       *)
(***************************************************************************)
Min(S) == CHOOSE x \in S : \A y \in S : x <= y
Max(S) == CHOOSE x \in S : \A y \in S : x >= y

\* len(re.findall(r'\ba\b|\bb\b|...', s)): scan left to right, at each position
\* the first alternative that matches is taken and the scan resumes after it
RECURSIVE findall_words(_, _, _)
findall_words(alts, s, i) ==
    IF i > Len(s) THEN 0
    ELSE LET hits == {k \in 1..Len(alts) : WordMatchAt(s, i, alts[k])}
         IN  IF hits = {} THEN findall_words(alts, s, i + 1)
             ELSE 1 + findall_words(alts, s, i + Len(alts[Min(hits)]))

he_pattern == <<"he", "his", "him">>
she_pattern == <<"she", "her", "hers">>

\* a count that forgets to lowercase the content
he_count_case_sensitive(content) == findall_words(he_pattern, content, 1)

he_count(content) == findall_words(he_pattern, lower(content), 1)
she_count(content) == findall_words(she_pattern, lower(content), 1)

\* _get_sex, lines 68-77, on the content line 66 retrieved
_get_sex(content) ==
    IF he_count(content) > she_count(content) THEN "Male"
    ELSE IF she_count(content) > he_count(content) THEN "Female"
    ELSE "Unknown"

keywords ==
    << [race |-> "African American/Black",
        terms |-> <<"african american", "african-american", "black american", "black",
                    "african descent", "nigerian", "kenyan", "jamaican", "haitian">>],
       [race |-> "White/Caucasian",
        terms |-> <<"caucasian", "white american", "european american", "white",
                    "irish", "italian", "german", "english", "scottish", "french">>],
       [race |-> "Hispanic/Latino",
        terms |-> <<"hispanic", "latino", "latina", "latinx", "mexican", "puerto rican",
                    "cuban", "dominican", "spanish", "colombian", "venezuelan">>],
       [race |-> "Asian",
        terms |-> <<"asian", "chinese", "japanese", "korean", "vietnamese", "filipino",
                    "indian", "pakistani", "bangladeshi", "thai", "cambodian">>],
       [race |-> "Mixed Race",
        terms |-> <<"mixed race", "biracial", "multiracial", "mixed heritage">>],
       [race |-> "Native American",
        terms |-> <<"native american", "indigenous", "american indian", "cherokee",
                    "navajo", "sioux", "apache">>] >>

NotAvailable == "Information not available"

\* the pattern of line 119: born to .{5,100}(family|parents|mother|father)
BirthPrefix == "born to "
BirthEnds == <<"family", "parents", "mother", "father">>
DotMin == 5
DotMax == 100

\* the lengths k the .{5,100} can take when the match starts at i
BirthSpans(s, i) ==
    {k \in DotMin..DotMax :
        /\ i + Len(BirthPrefix) + k - 1 <= Len(s)
        /\ \A j \in (i + Len(BirthPrefix))..(i + Len(BirthPrefix) + k - 1) : Char(s, j) # "\n"
        /\ \E e \in 1..Len(BirthEnds) : LiteralAt(s, i + Len(BirthPrefix) + k, BirthEnds[e])}

\* re.search of line 119 and group(0): leftmost start, greedy repetition; Absent for None
birth_context(s) ==
    LET starts == {i \in 1..Len(s) : LiteralAt(s, i, BirthPrefix) /\ BirthSpans(s, i) # {}}
    IN  IF starts = {} THEN Absent
        ELSE LET i == Min(starts)
                 k == Max(BirthSpans(s, i))
                 at == i + Len(BirthPrefix) + k
                 e == Min({x \in 1..Len(BirthEnds) : LiteralAt(s, at, BirthEnds[x])})
             IN  SubSeq(s, i, at + Len(BirthEnds[e]) - 1)

\* lines 111-116: the categories with a term matching as a whole word
direct_hits(content) ==
    LET low == lower(content)
    IN  {c \in 1..Len(keywords) :
            \E t \in 1..Len(keywords[c].terms) : re_search_word(keywords[c].terms[t], low)}

\* lines 122-125: the categories with a term that is a substring of the context
context_hits(context) ==
    LET low == lower(context)
    IN  {c \in 1..Len(keywords) :
            \E t \in 1..Len(keywords[c].terms) : Contains(low, keywords[c].terms[t])}

\* _get_race, lines 110-127, on the content line 81 retrieved
_get_race(content) ==
    IF direct_hits(content) # {} THEN keywords[Min(direct_hits(content))].race
    ELSE LET context == birth_context(lower(content))
         IN  IF context # Absent /\ context_hits(context) # {}
             THEN keywords[Min(context_hits(context))].race
             ELSE NotAvailable

(***************************************************************************)
(* instagram_follower_analysis.py: extract_follower_names                  *)
(***************************************************************************)
get(d, key, default) == IF d[key] = Absent THEN default ELSE d[key]

\* a JSON null, None once loaded
Null == "<null>"

\* load_json_data, lines 13-16: the exception open or json.load raises, by the state
\* of the file the --input argument names
load_json_data_raises(file) ==
    IF file = "missing" THEN "FileNotFoundError"
    ELSE IF file = "not_json" THEN "JSONDecodeError"
    ELSE "none"

\* lines 34-38: the record appended for one edge
follower_of(node) ==
    [username |-> get(node, "username", ""),
     full_name |-> get(node, "full_name", ""),
     profile_pic_url |-> get(node, "profile_pic_url", ""),
     predicted_gender |-> Absent,
     predicted_race |-> Absent,
     confidence |-> Absent,
     analysis_source |-> Absent]

RECURSIVE extract_edges(_)
extract_edges(edges) ==
    IF edges = <<>> THEN <<>>
    ELSE (IF Head(edges).has_node THEN <<follower_of(Head(edges).node)>> ELSE <<>>)
         \o extract_edges(Tail(edges))

\* line 24: the related profiles have no 'edges'
extract_follower_names_raises(data) ==
    IF data.has_related_profiles /\ ~data.has_edges THEN "KeyError" ELSE "none"

extract_follower_names(data) ==
    IF data.has_related_profiles THEN extract_edges(data.edges) ELSE <<>>

(***************************************************************************)
(* instagram_follower_analysis.py: analyze_with_perplexity_bulk            *)
(* A response of the external model is                                     *)
(*   [transport_error, status_code, body, items]                           *)
(* body says how far lines 137-153 get on a 200 answer:                    *)
(*   "body_not_json"     response.json() raises                            *)
(*   "no_chat_shape"     the choices, message or content key is missing    *)
(*   "no_choice"         choices is an empty array                         *)
(*   "content_not_json"  json.loads of the content raises                  *)
(*   "content_scalar"    the content parses to a number or null            *)
(*   "content_object"    the content parses to a non-empty object          *)
(*   "content_empty_object"  the content parses to {}                      *)
(*   "content_array"     the content parses to the array items             *)
(* result_text stands for the content after lines 143-147.                 *)
(***************************************************************************)
HttpOk == 200
NonObject == [is_object |-> FALSE, id |-> 0, gender |-> Absent, ethnicity |-> Absent,
              confidence |-> Absent]

\* the exception the try body of lines 124-169 raises, if any: its type and
\* whether it is raised inside the inner try of lines 141-169
raised_in_try(r) ==
    IF r.transport_error THEN [type |-> "ConnectionError", inner |-> FALSE]
    ELSE IF r.status_code # HttpOk THEN [type |-> "none", inner |-> FALSE]
    ELSE IF r.body = "body_not_json" THEN [type |-> "JSONDecodeError", inner |-> FALSE]
    ELSE IF r.body = "no_chat_shape" THEN [type |-> "KeyError", inner |-> FALSE]
    ELSE IF r.body = "no_choice" THEN [type |-> "IndexError", inner |-> FALSE]
    ELSE IF r.body = "content_not_json" THEN [type |-> "JSONDecodeError", inner |-> TRUE]
    ELSE IF r.body = "content_scalar" THEN [type |-> "TypeError", inner |-> TRUE]
    ELSE IF r.body = "content_object" THEN [type |-> "AttributeError", inner |-> TRUE]
    ELSE IF \E k \in 1..Len(r.items) : ~r.items[k].is_object
         THEN [type |-> "AttributeError", inner |-> TRUE]
         ELSE [type |-> "none", inner |-> FALSE]

\* line 171: except json.JSONDecodeError, around the inner try only
caught_by_inner(exc) == exc.inner /\ exc.type = "JSONDecodeError"

\* an outer handler that catches the transport errors only
caught_by_outer_transport_only(exc) == exc.type = "ConnectionError"

\* the exceptions that are no subclass of Exception
BaseExceptionsOnly == {"KeyboardInterrupt", "SystemExit", "GeneratorExit",
                       "BaseExceptionGroup", "CancelledError"}

\* line 188: except Exception
caught_by_outer(exc) == exc.type # "none" /\ exc.type \notin BaseExceptionsOnly

\* line 153: the items of the lookup found under id i; a later item replaces an earlier
items_with_id(items, i) == {k \in 1..Len(items) : items[k].id = i}

\* a merge that takes the ids as 1-based positions
apply_results_one_based(fs, items) ==
    [j \in 1..Len(fs) |->
        IF items_with_id(items, j) # {}
        THEN LET result == items[Max(items_with_id(items, j))]
             IN  [fs[j] EXCEPT !.predicted_gender = get(result, "gender", "unknown"),
                               !.predicted_race = get(result, "ethnicity", "unknown"),
                               !.confidence = get(result, "confidence", "low"),
                               !.analysis_source = "perplexity"]
        ELSE [fs[j] EXCEPT !.predicted_gender = "unknown",
                           !.predicted_race = "unknown",
                           !.confidence = "none",
                           !.analysis_source = "error"]]

\* lines 156-167
apply_results(fs, items) ==
    [j \in 1..Len(fs) |->
        IF items_with_id(items, j - 1) # {}
        THEN LET result == items[Max(items_with_id(items, j - 1))]
             IN  [fs[j] EXCEPT !.predicted_gender = get(result, "gender", "unknown"),
                               !.predicted_race = get(result, "ethnicity", "unknown"),
                               !.confidence = get(result, "confidence", "low"),
                               !.analysis_source = "perplexity"]
        ELSE [fs[j] EXCEPT !.predicted_gender = "unknown",
                           !.predicted_race = "unknown",
                           !.confidence = "none",
                           !.analysis_source = "error"]]

\* lines 175-178
json_error_handler(fs) ==
    [j \in 1..Len(fs) |-> [fs[j] EXCEPT !.predicted_gender = "unknown",
                                        !.predicted_race = "unknown",
                                        !.analysis_source = "error"]]

\* lines 183-186
api_error_branch(fs) ==
    [j \in 1..Len(fs) |-> [fs[j] EXCEPT !.predicted_gender = "unknown",
                                        !.predicted_race = "unknown",
                                        !.analysis_source = "error"]]

\* lines 191-194
exception_handler(fs) ==
    [j \in 1..Len(fs) |-> [fs[j] EXCEPT !.predicted_gender = "unknown",
                                        !.predicted_race = "unknown",
                                        !.analysis_source = "error"]]

\* a call that posts again after a failed attempt
posts_issued_with_retry(fs, r) ==
    IF r.transport_error \/ r.status_code # HttpOk THEN 2 ELSE 1

\* the number of requests.post calls of one call of the function (line 134)
posts_issued(fs, r) == 1

\* the function: what it returns, whether an exception leaves it, the requests made
analyze_with_perplexity_bulk(fs, r) ==
    LET exc == raised_in_try(r)
    IN  [followers |->
            IF exc.type = "none"
            THEN (IF r.status_code = HttpOk THEN apply_results(fs, r.items)
                  ELSE api_error_branch(fs))
            ELSE IF caught_by_inner(exc) THEN json_error_handler(fs)
            ELSE IF caught_by_outer(exc) THEN exception_handler(fs)
            ELSE fs,
         propagated |-> exc.type # "none" /\ ~caught_by_inner(exc) /\ ~caught_by_outer(exc),
         posts |-> posts_issued(fs, r)]

\* load_api_key, lines 198-210, by the state of api_config.py: "missing",
\* "import_error" (it imports a module that is not there), "broken" (it is not
\* valid Python), "no_attribute", or the key it defines
\* line 205: the exception exec_module raises
exec_module_raises(config) ==
    IF config = "missing" THEN "FileNotFoundError"
    ELSE IF config = "import_error" THEN "ImportError"
    ELSE IF config = "broken" THEN "SyntaxError"
    ELSE "none"

\* line 208: except (ImportError, FileNotFoundError)
caught_by_load_api_key(exc) == exc \in {"ImportError", "FileNotFoundError"}

\* the exception that leaves load_api_key
load_api_key_raises(config) ==
    IF caught_by_load_api_key(exec_module_raises(config)) THEN "none"
    ELSE exec_module_raises(config)

load_api_key(config) ==
    IF caught_by_load_api_key(exec_module_raises(config)) THEN ""
    ELSE IF config = "no_attribute" THEN ""
    ELSE config

\* line 222: load_api_key is called when the argument and the variable are empty
resolve_api_key_raises(arg_key, env_key, config) ==
    IF arg_key = "" /\ env_key = "" THEN load_api_key_raises(config) ELSE "none"

resolve_api_key(arg_key, env_key, config) ==
    IF arg_key # "" THEN arg_key
    ELSE IF env_key # "" THEN env_key
    ELSE load_api_key(config)

\* lines 253-259: one displayed line
display_line(f) ==
    [username |-> get(f, "username", ""),
     full_name |-> get(f, "full_name", ""),
     gender |-> get(f, "predicted_gender", "unknown"),
     ethnicity |-> get(f, "predicted_race", "unknown"),
     confidence |-> get(f, "confidence", "unknown")]

\* line 263: the exception open raises, by the state of the path --output names
open_output_raises(path) ==
    IF path = "no_directory" THEN "FileNotFoundError"
    ELSE IF path = "is_directory" THEN "IsADirectoryError"
    ELSE "none"

\* line 239: is_human_name raises on a full_name that is None (line 45)
human_followers_raises(fs) ==
    IF \E j \in 1..Len(fs) : fs[j].full_name = Null THEN "TypeError" ELSE "none"

\* line 239
RECURSIVE human_followers(_)
human_followers(fs) ==
    IF fs = <<>> THEN <<>>
    ELSE (IF is_human_name(Head(fs).full_name) THEN <<Head(fs)>> ELSE <<>>)
         \o human_followers(Tail(fs))

(***************************************************************************)
(* Idle values of the variables a specification leaves alone               *)
(***************************************************************************)
BulkIdle ==
    /\ pc = "idle" /\ args = <<>> /\ api_key = "" /\ followers = <<>> /\ batch = <<>>
    /\ response = <<>> /\ requests = 0 /\ log = <<>> /\ shown = <<>> /\ saved = <<>>
WikiIdle ==
    /\ wpc = "idle" /\ celebs = <<>> /\ widx = 0 /\ phase = "" /\ calls = <<>>
    /\ sex_content = "" /\ race_content = "" /\ info = <<>> /\ printed = 0
TextIdle == text = "" /\ sex = Absent /\ race = Absent /\ tpc = "idle"
FilterIdle == name = "" /\ human = FALSE /\ fpc = "idle"

(***************************************************************************)
(* instagram_follower_analysis.py: main, one action per stage of the run   *)
(***************************************************************************)
MaxFollowers == 3
MaxItems == 2

Maria == [username |-> "maria.lopez", full_name |-> "Maria Lopez",
          profile_pic_url |-> "https://pics/maria"]
Bruins == [username |-> "uclabruins", full_name |-> "UCLA Bruins",
           profile_pic_url |-> Absent]
Unnamed == [username |-> "anon", full_name |-> Null, profile_pic_url |-> Absent]
NoNode == [username |-> Absent, full_name |-> Absent, profile_pic_url |-> Absent]

EdgeInputs == {[has_node |-> TRUE, node |-> Maria], [has_node |-> TRUE, node |-> Bruins],
               [has_node |-> TRUE, node |-> Unnamed], [has_node |-> FALSE, node |-> NoNode]}
DataInputs ==
    {[has_related_profiles |-> h, has_edges |-> TRUE, edges |-> e] :
        h \in BOOLEAN, e \in SeqsUpTo(EdgeInputs, MaxFollowers)}
    \cup {[has_related_profiles |-> TRUE, has_edges |-> FALSE, edges |-> <<>>]}
FileInputs == {"missing", "not_json", "json"}
OutputInputs == {"writable", "no_directory", "is_directory"}

ArgInputs ==
    {[api_key |-> k, human_only |-> h, output |-> o] :
        k \in {"", "key-arg"}, h \in BOOLEAN, o \in BOOLEAN}
EnvInputs == {"", "key-env"}
ConfigInputs == {"missing", "import_error", "broken", "no_attribute", "key-file"}

\* an item with every key for each id, and for id 0 also one with the gender only
ObjectItems ==
    {[is_object |-> TRUE, id |-> i, gender |-> "female", ethnicity |-> "white",
      confidence |-> "high"] : i \in 0..MaxFollowers}
    \cup {[is_object |-> TRUE, id |-> 0, gender |-> "male", ethnicity |-> Absent,
            confidence |-> Absent]}
FailureBodies == {"body_not_json", "no_chat_shape", "no_choice", "content_not_json",
                  "content_scalar", "content_object"}
Responses ==
    {[transport_error |-> TRUE, status_code |-> 0, body |-> "", items |-> <<>>]}
    \cup {[transport_error |-> FALSE, status_code |-> c, body |-> "", items |-> <<>>] :
            c \in {204, 500}}
    \cup {[transport_error |-> FALSE, status_code |-> HttpOk, body |-> b, items |-> <<>>] :
            b \in FailureBodies \cup {"content_empty_object"}}
    \cup {[transport_error |-> FALSE, status_code |-> HttpOk, body |-> "content_array",
           items |-> it] : it \in SeqsUpTo(ObjectItems \cup {NonObject}, MaxItems)}

NoResponse == [transport_error |-> FALSE, status_code |-> 0, body |-> "none", items |-> <<>>]
NotSaved == [written |-> FALSE, records |-> <<>>]

\* line 244: if api_key
key_available(k) == k # ""

Init ==
    /\ pc = "start" /\ args \in ArgInputs /\ api_key = "" /\ followers = <<>>
    /\ batch = <<>> /\ response = NoResponse /\ requests = 0 /\ log = <<>>
    /\ shown = <<>> /\ saved = NotSaved
    /\ WikiIdle /\ TextIdle /\ FilterIdle

\* lines 221-225: an exception of load_api_key ends the run
ResolveKey ==
    /\ pc = "start"
    /\ \E env \in EnvInputs, config \in ConfigInputs :
          IF resolve_api_key_raises(args.api_key, env, config) # "none"
          THEN /\ pc' = "aborted"
               /\ log' = Append(log, "config_error")
               /\ UNCHANGED api_key
          ELSE LET k == resolve_api_key(args.api_key, env, config)
               IN  /\ pc' = "keyed"
                   /\ api_key' = k
                   /\ log' = IF k = "" THEN Append(log, "warning") ELSE log
    /\ UNCHANGED <<args, followers, batch, response, requests, shown, saved>>
    /\ UNCHANGED <<wikiVars, textVars, filterVars>>

\* lines 227-234: an exception of load_json_data or extract_follower_names ends the run
LoadAndExtract ==
    /\ pc = "keyed"
    /\ \E file \in FileInputs, data \in DataInputs :
          IF load_json_data_raises(file) # "none"
          THEN /\ pc' = "aborted"
               /\ log' = Append(log, "load_error")
               /\ UNCHANGED followers
          ELSE IF extract_follower_names_raises(data) # "none"
          THEN /\ pc' = "aborted"
               /\ log' = Append(log, "extract_error")
               /\ UNCHANGED followers
          ELSE /\ pc' = "extracted"
               /\ followers' = extract_follower_names(data)
               /\ UNCHANGED log
    /\ UNCHANGED <<args, api_key, batch, response, requests, shown, saved>>
    /\ UNCHANGED <<wikiVars, textVars, filterVars>>

\* lines 236-241: an exception of is_human_name ends the run
FilterHumans ==
    /\ pc = "extracted"
    /\ IF args.human_only /\ human_followers_raises(followers) # "none"
       THEN /\ pc' = "aborted"
            /\ log' = Append(log, "filter_error")
            /\ UNCHANGED followers
       ELSE /\ pc' = "filtered"
            /\ followers' = IF args.human_only THEN human_followers(followers)
                             ELSE followers
            /\ UNCHANGED log
    /\ UNCHANGED <<args, api_key, batch, response, requests, shown, saved>>
    /\ UNCHANGED <<wikiVars, textVars, filterVars>>

\* lines 244-246: the call of analyze_with_perplexity_bulk
Analyze ==
    /\ pc = "filtered"
    /\ key_available(api_key)
    /\ \E r \in Responses :
          LET res == analyze_with_perplexity_bulk(followers, r)
          IN  /\ response' = r
              /\ followers' = res.followers
              /\ requests' = requests + res.posts
              /\ pc' = IF res.propagated THEN "aborted" ELSE "analyzed"
    /\ batch' = followers
    /\ log' = Append(log, "post")
    /\ UNCHANGED <<args, api_key, shown, saved>>
    /\ UNCHANGED <<wikiVars, textVars, filterVars>>

\* lines 247-248
SkipAnalysis ==
    /\ pc = "filtered"
    /\ ~key_available(api_key)
    /\ batch' = followers
    /\ log' = Append(log, "no_key_notice")
    /\ pc' = "analyzed"
    /\ UNCHANGED <<args, api_key, followers, response, requests, shown, saved>>
    /\ UNCHANGED <<wikiVars, textVars, filterVars>>

\* lines 250-259
Display ==
    /\ pc = "analyzed"
    /\ shown' = [j \in 1..Len(followers) |-> display_line(followers[j])]
    /\ log' = Append(log, "results")
    /\ pc' = "displayed"
    /\ UNCHANGED <<args, api_key, followers, batch, response, requests, saved>>
    /\ UNCHANGED <<wikiVars, textVars, filterVars>>

\* lines 261-265: an exception of open ends the run
Save ==
    /\ pc = "displayed"
    /\ \E path \in OutputInputs :
          IF args.output /\ open_output_raises(path) # "none"
          THEN /\ pc' = "aborted"
               /\ log' = Append(log, "save_error")
               /\ UNCHANGED saved
          ELSE /\ pc' = "done"
               /\ saved' = IF args.output THEN [written |-> TRUE, records |-> followers]
                            ELSE saved
               /\ UNCHANGED log
    /\ UNCHANGED <<args, api_key, followers, batch, response, requests, shown>>
    /\ UNCHANGED <<wikiVars, textVars, filterVars>>

Next ==
    \/ ResolveKey
    \/ LoadAndExtract
    \/ FilterHumans
    \/ Analyze
    \/ SkipAnalysis
    \/ Display
    \/ Save

Spec == Init /\ [][Next]_vars

(***************************************************************************)
(* Claims about the batch pipeline                                         *)
(***************************************************************************)
AfterAnalysis == {"analyzed", "displayed", "done"}
Returned == pc \in AfterAnalysis \cup {"aborted"} /\ requests > 0

\* the answer is a 200 whose content is an array of objects
ArrayOfObjects(r) ==
    /\ ~r.transport_error
    /\ r.status_code = 200
    /\ r.body = "content_array"
    /\ \A k \in 1..Len(r.items) : r.items[k].is_object

UniqueIds(items) == \A k, l \in 1..Len(items) : items[k].id = items[l].id => k = l

SameProfile(f, g) ==
    /\ f.username = g.username
    /\ f.full_name = g.full_name
    /\ f.profile_pic_url = g.profile_pic_url

\* C1: after a 200 answer holding an array of objects with distinct ids, the record
\* at position i has the gender, ethnicity and confidence of the item with id i and
\* the model as source; without such an item it has unknown, unknown, none and
\* error; items whose id is no position of the batch change no record.
C1_MergeById ==
    Returned /\ ArrayOfObjects(response) /\ UniqueIds(response.items) =>
        /\ Len(followers) = Len(batch)
        /\ \A j \in 1..Len(batch) :
              /\ SameProfile(followers[j], batch[j])
              /\ \A k \in 1..Len(response.items) :
                    response.items[k].id = j - 1 =>
                        LET item == response.items[k]
                        IN  /\ item.gender # Absent =>
                                  followers[j].predicted_gender = item.gender
                            /\ item.ethnicity # Absent =>
                                  followers[j].predicted_race = item.ethnicity
                            /\ item.confidence # Absent =>
                                  followers[j].confidence = item.confidence
                            /\ followers[j].analysis_source = "perplexity"
              /\ (\A k \in 1..Len(response.items) : response.items[k].id # j - 1) =>
                    /\ followers[j].predicted_gender = "unknown"
                    /\ followers[j].predicted_race = "unknown"
                    /\ followers[j].confidence = "none"
                    /\ followers[j].analysis_source = "error"

\* three records, an answer covering ids 0 and 2 only
C1_Witness ==
    /\ pc = "done"
    /\ Len(batch) = 3
    /\ ArrayOfObjects(response)
    /\ {response.items[k].id : k \in 1..Len(response.items)} = {0, 2}
    /\ followers[1].analysis_source = "perplexity"
    /\ followers[2].analysis_source = "error"
    /\ followers[3].predicted_gender = "female"

\* C2: when the request ends in a transport failure, a non-200 status or a body that
\* is not the expected JSON, the function returns normally, the run goes on to the
\* display (it can stop only after it, on the output file), and every record of the
\* batch has gender unknown, ethnicity unknown and source error.
C2_FailureMarksEveryRecord ==
    Returned /\ ~ArrayOfObjects(response) =>
        /\ pc = "aborted" =>
              /\ log[Len(log)] = "save_error"
              /\ \E k \in 1..Len(log) : log[k] = "results"
              /\ Len(shown) = Len(followers)
        /\ pc = "analyzed" => ENABLED Display
        /\ Len(followers) = Len(batch)
        /\ \A j \in 1..Len(batch) :
              /\ SameProfile(followers[j], batch[j])
              /\ followers[j].predicted_gender = "unknown"
              /\ followers[j].predicted_race = "unknown"
              /\ followers[j].analysis_source = "error"

\* a 200 answer without the chat-completion shape, on a batch of two, run to the end
C2_Witness ==
    /\ pc = "done"
    /\ requests = 1
    /\ response.body = "no_chat_shape"
    /\ Len(batch) = 2
    /\ Len(shown) = 2
    /\ followers[2].analysis_source = "error"

ConfidenceLevels == {"high", "medium", "low", "none"}

\* C3: whatever the outcome of the external call, the returned list has exactly the
\* input records and every record carries gender, ethnicity, confidence (one of
\* high, medium, low, none) and source.
C3_EveryRecordFullyClassified ==
    Returned =>
        /\ Len(followers) = Len(batch)
        /\ \A j \in 1..Len(batch) :
              /\ SameProfile(followers[j], batch[j])
              /\ followers[j].predicted_gender # Absent
              /\ followers[j].predicted_race # Absent
              /\ followers[j].confidence \in ConfidenceLevels
              /\ followers[j].analysis_source # Absent

InputErrors == {"config_error", "load_error", "extract_error", "filter_error"}

\* C4 as stated: in every run with an API key, for any batch size and any outcome of
\* the call, exactly one request is issued for the whole batch, and none follows a
\* failure.
C4_SingleRequestEveryRun ==
    /\ requests <= 1
    /\ requests = Cardinality({k \in 1..Len(log) : log[k] = "post"})
    /\ pc \in {"start", "keyed", "extracted", "filtered"} => requests = 0
    /\ pc \in AfterAnalysis \cup {"aborted"} /\ api_key # "" => requests = 1

\* C4 amended: in every run with an API key that reaches the classification stage
\* (the input file loads and the profiles are extracted and filtered without an
\* exception), for any batch size and any outcome of the call, exactly one request
\* is issued for the whole batch and none follows a failure; a run that ends before
\* that stage, on a configuration file or an input it cannot load, extract or
\* filter, issues no request; a run that stops after the display, on an output
\* file it cannot open, has issued its one request; no run issues more than one.
C4_SingleRequestPerBatch ==
    /\ requests <= 1
    /\ requests = Cardinality({k \in 1..Len(log) : log[k] = "post"})
    /\ pc \in {"start", "keyed", "extracted", "filtered"} => requests = 0
    /\ pc \in AfterAnalysis /\ api_key # "" => requests = 1
    /\ pc = "aborted" =>
          /\ log # <<>> /\ log[Len(log)] \in InputErrors \cup {"save_error"}
          /\ log[Len(log)] \in InputErrors => requests = 0
          /\ log[Len(log)] = "save_error" /\ api_key # "" => requests = 1

\* an empty batch whose request failed, run to the end
C4_Witness ==
    /\ pc = "done"
    /\ api_key # ""
    /\ batch = <<>>
    /\ response.status_code = 500
    /\ requests = 1

\* C5 as stated: in every run without an API key a warning comes first, no request
\* is issued, the run reaches the display and the save without aborting, and all
\* records end with predicted_gender = unknown and predicted_race = unknown.
C5_NoKeyRecordsUnknown ==
    pc \notin {"idle", "start"} /\ api_key = "" =>
        /\ requests = 0
        /\ log # <<>> /\ log[1] = "warning"
        /\ pc # "aborted"
        /\ pc \in {"displayed", "done"} =>
              \A j \in 1..Len(followers) :
                  /\ followers[j].predicted_gender = "unknown"
                  /\ followers[j].predicted_race = "unknown"

\* no key in the argument or the variable and an api_config.py whose execution
\* raises an exception line 208 does not catch: the run ends in the key resolution,
\* before the warning
C5_Witness ==
    /\ pc = "aborted"
    /\ args.api_key = ""
    /\ api_key = ""
    /\ log = <<"config_error">>
    /\ requests = 0
    /\ shown = <<>>

(***************************************************************************)
(* celebrity_analysis.py: main and get_celebrity_info, one action per      *)
(* blocking network call                                                   *)
(***************************************************************************)
MaxEntered == 4
MaxCelebrities == 3

default_celebrities == <<"Harvey Weinstein", "Amber Heard", "Kanye West">>

\* the pieces of the input line between its commas
EnteredPieces == {"", " Betty White\r", "He Jiankui "}
EnteredInputs == UNION {[1..k -> EnteredPieces] : k \in 1..MaxEntered}

\* lines 134-144
bad_celebrities(pieces) ==
    LET stripped == [k \in 1..Len(pieces) |-> strip(pieces[k])]
        chosen == IF stripped[1] = "" THEN default_celebrities ELSE stripped
    IN  IF Len(chosen) > MaxCelebrities THEN SubSeq(chosen, 1, MaxCelebrities) ELSE chosen

SearchOutcomes == {"transport_error", "http_error", "empty", "hit"}
PageTexts == {"He is a German rapper.", "She sang with her Mexican band."}
FetchOutcomes ==
    {[kind |-> k, page |-> ""] : k \in {"transport_error", "http_error", "no_parse"}}
    \cup {[kind |-> "page", page |-> t] : t \in PageTexts}

\* lines 58 and 62
not_found_text(celebrity_name) == "No Wikipedia information found for " \o celebrity_name
error_text(celebrity_name) == "Error fetching information for " \o celebrity_name

\* a search that goes on to the page fetch whatever it found
search_finds_page_always(outcome) == outcome \notin {"transport_error", "http_error"}

\* lines 32-37: the search goes on to the page fetch
search_finds_page(outcome) == outcome = "hit"

\* _get_page_content when it ends at the search (lines 32-36, 58, 60-62)
content_after_search(outcome, celebrity_name) ==
    IF outcome \in {"transport_error", "http_error"} THEN error_text(celebrity_name)
    ELSE not_found_text(celebrity_name)

\* _get_page_content after the fetch (lines 48-62)
content_after_fetch(outcome, celebrity_name) ==
    IF outcome.kind \in {"transport_error", "http_error"} THEN error_text(celebrity_name)
    ELSE IF outcome.kind = "no_parse" THEN not_found_text(celebrity_name)
    ELSE outcome.page

NoInfo == [name |-> "", sex |-> "", race |-> ""]

WikiInit ==
    /\ wpc = "input" /\ celebs = <<>> /\ widx = 0 /\ phase = "" /\ calls = <<>>
    /\ sex_content = "" /\ race_content = "" /\ info = NoInfo /\ printed = 0
    /\ BulkIdle /\ TextIdle /\ FilterIdle

\* lines 131-149
ReadInput ==
    /\ wpc = "input"
    /\ \E pieces \in EnteredInputs : celebs' = bad_celebrities(pieces)
    /\ widx' = 1
    /\ phase' = "sex"
    /\ wpc' = "search"
    /\ UNCHANGED <<calls, sex_content, race_content, info, printed>>
    /\ UNCHANGED <<bulkVars, textVars, filterVars>>

\* the content of a retrieval is there: _get_sex (lines 66-77) goes on to _get_race,
\* _get_race (lines 81-127) completes info (lines 13-18)
Retrieved(content) ==
    IF phase = "sex"
    THEN /\ sex_content' = content
         /\ info' = [name |-> celebs[widx], sex |-> _get_sex(content), race |-> ""]
         /\ phase' = "race"
         /\ wpc' = "search"
         /\ UNCHANGED race_content
    ELSE /\ race_content' = content
         /\ info' = [info EXCEPT !.race = _get_race(content)]
         /\ phase' = "reported"
         /\ wpc' = "report"
         /\ UNCHANGED sex_content

\* line 32: the search request of _get_page_content
SearchCall ==
    /\ wpc = "search"
    /\ \E outcome \in SearchOutcomes :
          /\ calls' = Append(calls, [call |-> "search", outcome |-> outcome])
          /\ IF search_finds_page(outcome)
             THEN /\ wpc' = "fetch"
                  /\ UNCHANGED <<phase, sex_content, race_content, info>>
             ELSE Retrieved(content_after_search(outcome, celebs[widx]))
    /\ UNCHANGED <<celebs, widx, printed>>
    /\ UNCHANGED <<bulkVars, textVars, filterVars>>

\* line 48: the page request of _get_page_content
FetchCall ==
    /\ wpc = "fetch"
    /\ \E outcome \in FetchOutcomes :
          /\ calls' = Append(calls, [call |-> "fetch", outcome |-> outcome.kind])
          /\ Retrieved(content_after_fetch(outcome, celebs[widx]))
    /\ UNCHANGED <<celebs, widx, printed>>
    /\ UNCHANGED <<bulkVars, textVars, filterVars>>

\* lines 151-160: print the record and go on with the next celebrity
PrintReport ==
    /\ wpc = "report"
    /\ printed' = printed + 1
    /\ IF widx < Len(celebs)
       THEN /\ widx' = widx + 1
            /\ phase' = "sex"
            /\ wpc' = "search"
            /\ calls' = <<>>
            /\ sex_content' = ""
            /\ race_content' = ""
            /\ info' = NoInfo
       ELSE /\ wpc' = "done"
            /\ UNCHANGED <<widx, phase, calls, sex_content, race_content, info>>
    /\ UNCHANGED celebs
    /\ UNCHANGED <<bulkVars, textVars, filterVars>>

WikiNext ==
    \/ ReadInput
    \/ SearchCall
    \/ FetchCall
    \/ PrintReport

SpecWiki == WikiInit /\ [][WikiNext]_vars

Failed(content, celebrity_name) ==
    content \in {error_text(celebrity_name), not_found_text(celebrity_name)}

CallCount(kind) == Cardinality({k \in 1..Len(calls) : calls[k].call = kind})

\* C6 as stated: producing the record of one subject issues at most two network
\* calls, one search and at most one fetch, the fetch only after a search with a
\* non-empty result, and sex and race are derived from the same retrieved text.
C6_TwoCallsPerSubject ==
    /\ Len(calls) <= 2
    /\ CallCount("search") <= 1
    /\ \A k \in 1..Len(calls) :
          calls[k].call = "fetch" =>
              k > 1 /\ calls[k - 1].call = "search" /\ calls[k - 1].outcome = "hit"
    /\ wpc = "report" => sex_content = race_content

\* C6 amended: subjects are processed one at a time in input order; the page text is
\* retrieved twice per subject, once for sex and once for race, each retrieval a
\* search followed by at most one fetch, the fetch only right after a search with a
\* non-empty result; so one record takes at most four network calls, and sex and
\* race are derived from two separately retrieved texts.
C6_TwoRetrievalsPerSubject ==
    wpc \in {"search", "fetch", "report", "done"} =>
        /\ Len(calls) <= 4
        /\ CallCount("search") <= 2
        /\ CallCount("fetch") <= CallCount("search")
        /\ \A k \in 1..Len(calls) :
              calls[k].call = "fetch" =>
                  k > 1 /\ calls[k - 1].call = "search" /\ calls[k - 1].outcome = "hit"
        /\ \A k \in 1..Len(calls) :
              calls[k].call = "search" /\ calls[k].outcome = "hit" /\ k < Len(calls) =>
                  calls[k + 1].call = "fetch"
        /\ wpc = "fetch" => calls[Len(calls)].outcome = "hit"
        /\ widx \in 1..Len(celebs)
        /\ printed = IF wpc = "done" THEN widx ELSE widx - 1
        /\ wpc \in {"report", "done"} =>
              /\ CallCount("search") = 2
              /\ info.name = celebs[widx]
              /\ info.sex = _get_sex(sex_content)
              /\ info.race = _get_race(race_content)

\* a record that took four calls and two different texts
C6_Witness ==
    /\ wpc = "report"
    /\ widx = 2
    /\ Len(calls) = 4
    /\ sex_content \in PageTexts
    /\ race_content \in PageTexts
    /\ sex_content # race_content

\* C7: when retrieving the page text fails (transport error or non-success status
\* in the search or the fetch, or a search without results), no exception leaves
\* get_celebrity_info, the remaining subjects are still processed, and the record of
\* the subject has sex = Unknown and race = Information not available.
C7_FailureGivesSentinels ==
    wpc = "report" /\ Failed(sex_content, celebs[widx]) /\ Failed(race_content, celebs[widx]) =>
        /\ info.name = celebs[widx]
        /\ info.sex = "Unknown"
        /\ info.race = NotAvailable

(***************************************************************************)
(* The human-name filter on bounded display names                          *)
(***************************************************************************)
MaxNameParts == 3
NameParts == {"UCLA", "Anderson", "THE", "OFFICE", "Maria", "Lopez", "what's", "bruin",
              "Club", " ", "AJ", "7", "\r", "É"}
NameInputs == {Concat(p) : p \in SeqsUpTo(NameParts, MaxNameParts)}

FilterInit ==
    /\ name \in NameInputs /\ human = FALSE /\ fpc = "input"
    /\ BulkIdle /\ WikiIdle /\ TextIdle
IsHumanName ==
    /\ fpc = "input"
    /\ human' = is_human_name(name)
    /\ fpc' = "done"
    /\ UNCHANGED <<name, bulkVars, wikiVars, textVars>>
FilterNext == IsHumanName
SpecFilter == FilterInit /\ [][FilterNext]_vars

KeywordSet == {non_human_keywords[k] : k \in 1..Len(non_human_keywords)}

\* C9: is_human_name returns false if some whitespace-delimited token of the
\* lowercased normalized name equals a block-list entry, false if the original name
\* is entirely upper-case and longer than 3 characters, true otherwise; every entry
\* of the block-list is able to cause a rejection (a name that is just the entry is
\* rejected); "UCLA Anderson" and "THE OFFICE" are rejected, "Maria Lopez" accepted.
C9_HumanFilterDecision ==
    fpc = "done" =>
        /\ human = ~(\/ split(lower(normalize_name(name))) \cap KeywordSet # {}
                     \/ (isupper(name) /\ Len(name) > 3))
        /\ \A k \in KeywordSet : lower(name) = k => human = FALSE
        /\ name = "UCLA Anderson" => human = FALSE
        /\ name = "THE OFFICE" => human = FALSE
        /\ name = "Maria Lopez" => human = TRUE

(***************************************************************************)
(* The pronoun heuristic on bounded texts                                  *)
(***************************************************************************)
MaxSexParts == 3
SexParts == {"He", "she", "HER", "hers", "his", "him", "the", " ", "'s", "_", "s", ".",
             "é"}
SexInputs == {Concat(p) : p \in SeqsUpTo(SexParts, MaxSexParts)}

SexInit ==
    /\ text \in SexInputs /\ sex = Absent /\ race = Absent /\ tpc = "input"
    /\ BulkIdle /\ WikiIdle /\ FilterIdle
GetSex ==
    /\ tpc = "input"
    /\ sex' = _get_sex(text)
    /\ tpc' = "done"
    /\ UNCHANGED <<text, race, bulkVars, wikiVars, filterVars>>
SexNext == GetSex
SpecSex == SexInit /\ [][SexNext]_vars

\* the words of s: its maximal runs of word characters, in order
RECURSIVE WordsFrom(_, _, _)
WordsFrom(s, i, cur) ==
    IF i > Len(s) THEN (IF cur = "" THEN <<>> ELSE <<cur>>)
    ELSE IF isWordChar(Char(s, i)) THEN WordsFrom(s, i + 1, cur \o Char(s, i))
         ELSE (IF cur = "" THEN <<>> ELSE <<cur>>) \o WordsFrom(s, i + 1, "")
Words(s) == WordsFrom(s, 1, "")

\* the number of words of s that are, case-insensitively, in the set W
WholeWordCount(s, W) == Cardinality({i \in 1..Len(Words(s)) : lower(Words(s)[i]) \in W})

HeWords == {"he", "his", "him"}
SheWords == {"she", "her", "hers"}

\* C10: with h the number of case-insensitive whole-word occurrences of he/his/him
\* and s that of she/her/hers, the result is male iff h > s, female iff s > h, and
\* unknown otherwise; every tie, h = s = 0 included, yields unknown.
C10_GenderByPronounCount ==
    tpc = "done" /\ sex # Absent =>
        LET h == WholeWordCount(text, HeWords)
            s == WholeWordCount(text, SheWords)
        IN  /\ sex = "Male" <=> h > s
            /\ sex = "Female" <=> s > h
            /\ sex = "Unknown" <=> h = s

C10_Witness ==
    /\ tpc = "done"
    /\ WholeWordCount(text, HeWords) = 1
    /\ WholeWordCount(text, SheWords) = 1
    /\ sex = "Unknown"

(***************************************************************************)
(* The ethnicity heuristic on bounded texts                                *)
(***************************************************************************)
MaxRaceParts == 3
RaceParts == {"born to ", "a big ", "family", "father", "blacksmith ", "white ", "Asian ",
              "Caucasian ", "a ", "\n", "indiana ", "hispanic "}
RaceInputs == {Concat(p) : p \in SeqsUpTo(RaceParts, MaxRaceParts)}

RaceInit ==
    /\ text \in RaceInputs /\ sex = Absent /\ race = Absent /\ tpc = "input"
    /\ BulkIdle /\ WikiIdle /\ FilterIdle
GetRace ==
    /\ tpc = "input"
    /\ race' = _get_race(text)
    /\ tpc' = "done"
    /\ UNCHANGED <<text, sex, bulkVars, wikiVars, filterVars>>
RaceNext == GetRace
SpecRace == RaceInit /\ [][RaceNext]_vars

\* the categories with a trigger term that is a whole word of s
WholeWordCategories(s) ==
    {c \in 1..Len(keywords) :
        \E t \in 1..Len(keywords[c].terms) : re_search_word(keywords[c].terms[t], s)}

\* C8: the result is the earliest declared category with a trigger term matching as
\* a whole word in the lowercased text; if none, the same whole-word scan on the
\* "born to ... family/parents/mother/father" span; if neither,
\* "Information not available"; a category is never returned for a term that
\* occurs only as part of a longer word.
C8_EthnicityFirstWholeWordMatch ==
    tpc = "done" /\ race # Absent =>
        LET low == lower(text)
            span == birth_context(low)
        IN  /\ race = IF WholeWordCategories(low) # {}
                      THEN keywords[Min(WholeWordCategories(low))].race
                      ELSE IF span # Absent /\ WholeWordCategories(span) # {}
                           THEN keywords[Min(WholeWordCategories(span))].race
                           ELSE NotAvailable
            /\ race # NotAvailable =>
                  \E c \in WholeWordCategories(low) : keywords[c].race = race

====
